---------------------------- MODULE Spec2Model ----------------------------
(***************************************************************************)
(* Internal flash controller of the STM32F4 family                         *)
(* (src/src/drivers/stm32f4/flash.rs): the memory map, the address/range   *)
(* algebra, the non-blocking primitives and the write/erase engine.        *)
(*                                                                         *)
(* Geometry.  The stm32f412 map holds 15 sectors of 16 bytes to 128 KiB    *)
(* at addresses up to 0x1FFF_C010.  The model keeps the table's shape --   *)
(* the same 15 entries, tags and order, four contiguous Reserved sectors   *)
(* followed by eight contiguous Main sectors, an unmapped gap, the         *)
(* SystemMemory sector with the OneTimeProgrammable sector nested inside   *)
(* it, another gap and the OptionBytes sector -- with every sector shrunk  *)
(* to one or two 32-bit words and the address space shrunk to 7 bits, so   *)
(* that flash content can be held byte by byte.  Bytes stay 8 bits wide    *)
(* and words stay 4 bytes wide.                                            *)
(***************************************************************************)
EXTENDS Integers, Sequences, FiniteSets, TLC

(***************************************************************************)
(* Bounds of the model                                                     *)
(***************************************************************************)
\* Longest byte buffer a caller passes to write or read.
MaxLen == 13

\* The whole driver (write, read and erase in any order) is explored for the
\* requests that start within DriverWindow bytes of the writable area's
\* start and carry at most DriverMaxLen bytes.
DriverWindow == 3

DriverMaxLen == 4

(***************************************************************************)
(* Addresses                                                               *)
(***************************************************************************)
\* Addresses are u32 in the source; the model's address space is 2^7.
AddressSpace == 128

Addresses == 0..(AddressSpace - 1)

\* u32 addition as the release build computes it (wrapping).
WrapAdd(a, n) == (a + n) % AddressSpace

\* u32 addition overflows: the debug build panics here.
AddOverflows(a, n) == a + n >= AddressSpace

\* impl Sub<Address> for Address: saturating.
SaturatingSub(a, b) == IF a >= b THEN a - b ELSE 0

(***************************************************************************)
(* Memory map                                                              *)
(***************************************************************************)
SECTOR_NUMBER == 15

Sector(block, location, size) ==
    [block |-> block, location |-> location, size |-> size]

MEMORY_MAP ==
    [sectors |-> <<
        Sector("Reserved", 8, 4),
        Sector("Reserved", 12, 4),
        Sector("Reserved", 16, 4),
        Sector("Reserved", 20, 4),
        Sector("Main", 24, 4),
        Sector("Main", 28, 8),
        Sector("Main", 36, 8),
        Sector("Main", 44, 8),
        Sector("Main", 52, 8),
        Sector("Main", 60, 8),
        Sector("Main", 68, 8),
        Sector("Main", 76, 8),
        Sector("SystemMemory", 92, 12),
        Sector("OneTimeProgrammable", 96, 4),
        Sector("OptionBytes", 108, 4)
    >>]

\* Sector indices are 0-based, as in the source.
SectorIndices == 0..(SECTOR_NUMBER - 1)

SectorAt(i) == MEMORY_MAP.sectors[i + 1]

SectorStart(s) == s.location

\* Mutant: the end of a sector is its last address.
SectorEndInclusive(s) == SectorStart(s) + s.size - 1

SectorEnd(s) == SectorStart(s) + s.size

\* Mutant: the Reserved sectors count as writable too.
SectorIsWritableMainArea(s) == s.block = "Main" \/ s.block = "Reserved"

SectorIsWritable(s) == s.block = "Main"

SectorIsInMainMemoryArea(s) == s.block = "Main" \/ s.block = "Reserved"

\* impl memory::Region<Address> for Sector
SectorContains(s, address) == SectorStart(s) <= address /\ SectorEnd(s) > address

\* Mutant: the number is the position among the writable sectors.
SectorNumberAmongWritable(s) ==
    LET hits == {i \in SectorIndices : SectorIsWritable(SectorAt(i)) /\ SectorAt(i) = s}
        first == CHOOSE i \in hits : \A j \in hits : i <= j
    IN  IF hits = {} THEN -1
        ELSE Cardinality({j \in SectorIndices : j < first /\ SectorIsWritable(SectorAt(j))})

\* Sector::number: the first index of the table holding this very sector,
\* if it lies in the main memory area; -1 stands for None.
SectorNumber(s) ==
    LET hits == {i \in SectorIndices :
                    SectorIsInMainMemoryArea(SectorAt(i)) /\ SectorAt(i) = s}
    IN  IF hits = {} THEN -1
        ELSE CHOOSE i \in hits : \A j \in hits : i <= j

max_sector_size ==
    LET sizes == {SectorAt(i).size : i \in SectorIndices}
    IN  CHOOSE m \in sizes : \A z \in sizes : z <= m

RECURSIVE FirstWritableFrom(_)
FirstWritableFrom(i) ==
    IF SectorIsWritable(SectorAt(i)) THEN i ELSE FirstWritableFrom(i + 1)

\* Mutant: the run of writable sectors is taken one sector too far.
RECURSIVE LastWritableOneTooFar(_)
LastWritableOneTooFar(i) ==
    IF ~SectorIsWritable(SectorAt(i + 1)) THEN i + 1 ELSE LastWritableOneTooFar(i + 1)

RECURSIVE LastWritableFrom(_)
LastWritableFrom(i) ==
    IF ~SectorIsWritable(SectorAt(i + 1)) THEN i ELSE LastWritableFrom(i + 1)

writable_start == SectorStart(SectorAt(FirstWritableFrom(0)))

writable_end == SectorEnd(SectorAt(LastWritableFrom(FirstWritableFrom(0))))

(***************************************************************************)
(* Ranges                                                                  *)
(***************************************************************************)
Range(low, high) == <<low, high>>

\* Mutant: the last test forgets the sector's end.
RangeOverlapsNoUpperBound(r, s) ==
    \/ (r[1] <= SectorStart(s)) /\ (r[2] > SectorEnd(s))
    \/ (r[1] < SectorEnd(s)) /\ (r[2] >= SectorEnd(s))
    \/ (r[1] >= SectorStart(s) /\ r[1] < SectorEnd(s))
    \/ (r[2] >= SectorStart(s))

\* Range::overlaps
RangeOverlaps(r, s) ==
    \/ (r[1] <= SectorStart(s)) /\ (r[2] > SectorEnd(s))
    \/ (r[1] < SectorEnd(s)) /\ (r[2] >= SectorEnd(s))
    \/ (r[1] >= SectorStart(s) /\ r[1] < SectorEnd(s))
    \/ (r[2] < SectorEnd(s) /\ r[2] >= SectorStart(s))

\* Range::span, as the sequence of the indices of the slice it returns.
RangeSpan(r) ==
    LET hits  == {i \in SectorIndices : RangeOverlaps(r, SectorAt(i))}
        first == CHOOSE i \in hits : \A j \in hits : i <= j
        last  == CHOOSE i \in hits : \A j \in hits : i >= j
    IN  IF hits # {}
        THEN [k \in 1..(last - first + 1) |-> first + k - 1]
        ELSE <<0>>

RangeIsValid(r) ==
    LET after_map  == r[1] >= SectorEnd(SectorAt(SECTOR_NUMBER - 1))
        before_map == r[2] < SectorEnd(SectorAt(0))
        monotonic  == r[2] >= r[1]
    IN  monotonic /\ ~before_map /\ ~after_map

RangeIsWritable(r) ==
    \A k \in 1..Len(RangeSpan(r)) : SectorIsWritable(SectorAt(RangeSpan(r)[k]))

MapIsSound ==
    LET main == SelectSeq(MEMORY_MAP.sectors, SectorIsInMainMemoryArea)
        consecutive ==
            \A k \in 1..(Len(main) - 1) : SectorEnd(main[k]) = SectorStart(main[k + 1])
        ranges_valid ==
            \A i \in SectorIndices :
                RangeIsValid(Range(SectorStart(SectorAt(i)), SectorEnd(SectorAt(i))))
    IN  consecutive /\ ranges_valid

(***************************************************************************)
(* Bytes                                                                   *)
(***************************************************************************)
Bytes == 0..255

\* An erased byte: all bits one.
ERASED == 256 - 1

\* Bitwise AND of two bytes.
RECURSIVE BitAnd(_, _)
BitAnd(a, b) ==
    IF a = 0 \/ b = 0 THEN 0
    ELSE (a % 2) * (b % 2) + 2 * BitAnd(a \div 2, b \div 2)

\* utilities::bitwise::SliceBitSubset for [u8]: every bit set in lhs is set
\* in the byte of rhs at the same position.
IsSubsetOf(lhs, rhs) ==
    /\ Len(lhs) <= Len(rhs)
    /\ \A i \in 1..Len(lhs) : BitAnd(lhs[i], rhs[i]) = lhs[i]

\* bytes[from..to) of a 0-based slice, as a sequence.
Slice(bytes, from, to) == [i \in 1..(to - from) |-> bytes[from + i]]

\* utilities::memory::IterableByOverlaps: one (block, sector, address) per
\* sector, in table order, that contains at least one byte of the buffer
\* placed at base_address; block is the run of the buffer's bytes inside it.
OverlapOf(bytes, base_address, i) ==
    LET inside == {k \in 0..(Len(bytes) - 1) :
                    SectorContains(SectorAt(i), base_address + k)}
        start  == CHOOSE k \in inside : \A j \in inside : k <= j
        stop   == CHOOSE k \in inside : \A j \in inside : k >= j
    IN  IF inside = {} THEN <<>>
        ELSE << [block   |-> Slice(bytes, start, stop + 1),
                 sector  |-> i,
                 address |-> base_address + start] >>

RECURSIVE OverlapsFrom(_, _, _)
OverlapsFrom(bytes, base_address, i) ==
    IF i = SECTOR_NUMBER THEN <<>>
    ELSE OverlapOf(bytes, base_address, i) \o OverlapsFrom(bytes, base_address, i + 1)

Overlaps(bytes, base_address) == OverlapsFrom(bytes, base_address, 0)

(***************************************************************************)
(* The flash peripheral and the memory-mapped storage behind it            *)
(*                                                                         *)
(* A machine m is [flash, cr, key, bsy, trace, erases]: the storage (one   *)
(* byte per mapped address), the control register, the progress of the     *)
(* unlock key sequence, the status register's busy bit, the peripheral     *)
(* accesses the driver made during the current call, and the sectors the   *)
(* hardware erased during it (the erase-count probe).                      *)
(***************************************************************************)
MappedAddresses ==
    {a \in Addresses : \E i \in SectorIndices : SectorContains(SectorAt(i), a)}

\* The two unlock keys 0x45670123 and 0xCDEF89AB, as 16-bit halves.
UNLOCK_KEYS == << <<17767, 291>>, <<52719, 35243>> >>

Event(ev, arg) == [ev |-> ev, arg |-> arg]

Logged(m, ev, arg) == [m EXCEPT !.trace = Append(@, Event(ev, arg))]

\* Key register: the two keys in order clear LOCK; anything else does not.
HwKeyWrite(m, key) ==
    LET m1 == Logged(m, "keyr", IF key = UNLOCK_KEYS[1] THEN 1 ELSE 2)
    IN  IF m.key = 0 /\ key = UNLOCK_KEYS[1] THEN [m1 EXCEPT !.key = 1]
        ELSE IF m.key = 1 /\ key = UNLOCK_KEYS[2]
             THEN [m1 EXCEPT !.key = 0, !.cr.lock = FALSE]
             ELSE [m1 EXCEPT !.key = 0]

\* A sector erase starts when SER and STRT are written to the unlocked
\* control register: the sector SNB names reads all ones from then on and
\* the peripheral is busy until the erase completes.
HwEraseStarts(m) ==
    IF m.cr.lock \/ ~m.cr.ser \/ m.cr.snb \notin SectorIndices THEN m
    ELSE [m EXCEPT
            !.flash = [a \in MappedAddresses |->
                         IF SectorContains(SectorAt(m.cr.snb), a)
                         THEN ERASED ELSE m.flash[a]],
            !.bsy = TRUE,
            !.erases = Append(@, m.cr.snb)]

\* A 32-bit store into the mapped flash: with PG set and the peripheral
\* unlocked it programs the word, which can only clear bits.
HwProgramWord(m, address, word) ==
    LET m1 == Logged(m, "word", address)
    IN  IF m.cr.lock \/ ~m.cr.pg THEN m1
        ELSE [m1 EXCEPT
                !.flash = [a \in MappedAddresses |->
                             IF a >= address /\ a < address + 4
                             THEN BitAnd(m.flash[a], word[a - address + 1])
                             ELSE m.flash[a]],
                !.bsy = TRUE]

(***************************************************************************)
(* Non-blocking primitives of McuFlash                                     *)
(* Each takes a machine and yields [m |-> machine after, res |-> result].  *)
(***************************************************************************)
Outcome(m, res) == [m |-> m, res |-> res]

\* Mutant: the busy flag always reads clear.
IsBusyNever(m) == FALSE

IsBusy(m) == m.bsy

\* Mutant: unlock does not look at the busy flag.
UnlockNoBusyCheck(m) ==
    LET m1 == HwKeyWrite(m, UNLOCK_KEYS[1])
        m2 == HwKeyWrite(m1, UNLOCK_KEYS[2])
        m3 == Logged([m2 EXCEPT !.cr.psize = 2], "cr", 0)
    IN  Outcome(m3, "Ok")

\* Mutant: the keys are written in the opposite order.
UnlockKeysSwapped(m) ==
    LET m0 == Logged(m, "bsy", IF IsBusy(m) THEN 1 ELSE 0)
        m1 == HwKeyWrite(m0, UNLOCK_KEYS[2])
        m2 == HwKeyWrite(m1, UNLOCK_KEYS[1])
        m3 == Logged([m2 EXCEPT !.cr.psize = 2], "cr", 0)
    IN  IF IsBusy(m) THEN Outcome(m0, "WouldBlock") ELSE Outcome(m3, "Ok")

\* Mutant: the test of the busy flag is inverted.
UnlockBusyInverted(m) ==
    LET m0 == Logged(m, "bsy", IF IsBusy(m) THEN 1 ELSE 0)
        m1 == HwKeyWrite(m0, UNLOCK_KEYS[1])
        m2 == HwKeyWrite(m1, UNLOCK_KEYS[2])
        m3 == Logged([m2 EXCEPT !.cr.psize = 2], "cr", 0)
    IN  IF ~IsBusy(m) THEN Outcome(m0, "WouldBlock") ELSE Outcome(m3, "Ok")

\* McuFlash::unlock
Unlock(m) ==
    LET m0 == Logged(m, "bsy", IF IsBusy(m) THEN 1 ELSE 0)
        m1 == HwKeyWrite(m0, UNLOCK_KEYS[1])
        m2 == HwKeyWrite(m1, UNLOCK_KEYS[2])
        m3 == Logged([m2 EXCEPT !.cr.psize = 2], "cr", 0)
    IN  IF IsBusy(m) THEN Outcome(m0, "WouldBlock") ELSE Outcome(m3, "Ok")

\* Mutant: lock() does not set the LOCK bit.
LockWithoutEffect(m) == Logged(m, "lock", 0)

Lock(m) == Logged([m EXCEPT !.cr.lock = TRUE], "lock", 0)

\* Mutant: erase(sector) unlocks before it asks for the sector's number.
EraseSectorUnlocksFirst(m, s) ==
    LET number   == SectorNumber(s)
        unlocked == Unlock(m)
        started  == HwEraseStarts(
                       Logged([unlocked.m EXCEPT !.cr.ser = TRUE, !.cr.snb = number],
                              "strt", number))
    IN  IF unlocked.res # "Ok" THEN unlocked
        ELSE IF number = -1 THEN Outcome(unlocked.m, "MemoryNotReachable")
        ELSE Outcome(Lock(started), "Ok")

\* McuFlash::erase(&mut self, sector)
EraseSector(m, s) ==
    LET number   == SectorNumber(s)
        unlocked == Unlock(m)
        started  == HwEraseStarts(
                       Logged([unlocked.m EXCEPT !.cr.ser = TRUE, !.cr.snb = number],
                              "strt", number))
    IN  IF number = -1 THEN Outcome(m, "MemoryNotReachable")
        ELSE IF unlocked.res # "Ok" THEN unlocked
        ELSE Outcome(Lock(started), "Ok")

\* Mutant: only the complete chunks of four bytes are programmed.
WordsOfWholeChunks(bytes) ==
    [w \in 1..(Len(bytes) \div 4) |-> [k \in 1..4 |-> bytes[4 * (w - 1) + k]]]

\* bytes.chunks(4) as little-endian words, the last one padded with zeros.
WordsOf(bytes) ==
    [w \in 1..((Len(bytes) + 3) \div 4) |->
        [k \in 1..4 |->
            IF 4 * (w - 1) + k <= Len(bytes) THEN bytes[4 * (w - 1) + k] ELSE 0]]

RECURSIVE ProgramWords(_, _, _, _)
ProgramWords(m, base_address, words, index) ==
    IF index = Len(words) THEN m
    ELSE ProgramWords(HwProgramWord(m, WrapAdd(base_address, 4 * index),
                                    words[index + 1]),
                      base_address, words, index + 1)

\* McuFlash::write_bytes.  address + bytes.len() is a u32 sum, taken here as
\* the release build computes it (the debug build panics if it overflows).
\* Its block!(self.unlock()) calls unlock again and
\* again while the peripheral is busy: write_bytes does not return then,
\* which the result "Spins" stands for.
WriteBytes(m, bytes, s, address) ==
    LET unlocked == Unlock(m)
        enabled  == Logged([unlocked.m EXCEPT !.cr.pg = TRUE], "pg", 0)
        written  == ProgramWords(enabled, address, WordsOf(bytes), 0)
    IN  IF address < SectorStart(s) \/ WrapAdd(address, Len(bytes)) > SectorEnd(s)
        THEN Outcome(m, "MisalignedAccess")
        ELSE IF unlocked.res # "Ok" THEN Outcome(unlocked.m, "Spins")
        ELSE Outcome(Lock(written), "Ok")

\* Mutant: read answers WouldBlock while the peripheral is busy.
ReadWhenIdle(m, address, high, len) ==
    IF ~RangeIsWritable(Range(address, high))
    THEN [tag |-> "MemoryNotReachable", data |-> <<>>]
    ELSE IF m.bsy THEN [tag |-> "WouldBlock", data |-> <<>>]
    ELSE [tag |-> "Ok",
          data |-> [i \in 1..len |->
                      IF address + i - 1 \in MappedAddresses
                      THEN m.flash[address + i - 1] ELSE -1]]

\* <McuFlash as ReadWrite>::read on the range [address, high): the bytes of
\* the mapped storage; an address no sector maps reads as -1.
Read(m, address, high, len) ==
    IF ~RangeIsWritable(Range(address, high))
    THEN [tag |-> "MemoryNotReachable", data |-> <<>>]
    ELSE [tag |-> "Ok",
          data |-> [i \in 1..len |->
                      IF address + i - 1 \in MappedAddresses
                      THEN m.flash[address + i - 1] ELSE -1]]

\* Mutant: the block is laid over the start of the sector.
OverlayAtStart(sector_data, offset, block) ==
    [i \in 1..Len(sector_data) |->
        IF i <= Len(block) THEN block[i] ELSE sector_data[i]]

\* sector_data with the block laid over it from offset on.
Overlay(sector_data, offset, block) ==
    [i \in 1..Len(sector_data) |->
        IF i > offset /\ i - offset <= Len(block) THEN block[i - offset]
        ELSE sector_data[i]]

\* Mutant: the block is compared with the start of the sector.
FitsInPlaceAtStart(block, sector_data, offset, size) ==
    IsSubsetOf(block, Slice(sector_data, 0, size))

\* write's test for programming in place: the block is a bitwise subset of
\* sector_data[offset_into_sector..sector.size].
FitsInPlace(block, sector_data, offset, size) ==
    IsSubsetOf(block, Slice(sector_data, offset, size))

\* Mutant: only odd addresses count as misaligned.
IsMisalignedHalfword(address) == address % 2 # 0

\* write's alignment test.
IsMisaligned(address) == address % 4 # 0

(***************************************************************************)
(* utilities::iterator                                                     *)
(*                                                                         *)
(* An Option<T> is a sequence: <<>> is None and <<x>> is Some(x).          *)
(***************************************************************************)
\* Mutant: an element is only compared with the one that follows it.
RECURSIVE AllUniqueAdjacent(_)
AllUniqueAdjacent(elements) ==
    IF Len(elements) < 2 THEN TRUE
    ELSE IF elements[2] = elements[1] THEN FALSE
    ELSE AllUniqueAdjacent(Tail(elements))

\* Unique::all_unique: each element in turn is compared with all that
\* follow it.
RECURSIVE AllUnique(_)
AllUnique(elements) ==
    IF elements = <<>> THEN TRUE
    ELSE IF \E k \in 2..Len(elements) : elements[k] = elements[1] THEN FALSE
    ELSE AllUnique(Tail(elements))

\* No iterator has been made yet.
NoIterator ==
    [state |-> "none", source |-> <<>>, inner |-> <<>>, sequence |-> <<>>,
     head |-> 0, tail |-> 0, divergent |-> <<>>, yielded |-> <<>>, unique |-> TRUE]

\* UntilSequence::until_sequence
UntilSequenceIterator(inner, sequence) ==
    [NoIterator EXCEPT !.state = "ready", !.source = inner, !.inner = inner,
                       !.sequence = sequence]

\* UntilSequenceIterator::iterate_on_sequence: the iterator after the call
\* and the item returned.
IterateOnSequence(i) ==
    IF i.head = i.tail
    THEN [it   |-> [i EXCEPT !.divergent = <<>>, !.tail = 0, !.head = 0],
          item |-> i.divergent]
    ELSE [it   |-> [i EXCEPT !.head = @ + 1],
          item |-> <<i.sequence[i.head + 1]>>]

\* The loop of UntilSequenceIterator::next.  self.sequence[self.tail] is
\* out of bounds when tail has reached the length of the sequence: the
\* index panics.
RECURSIVE NextLoop(_)
NextLoop(i) ==
    IF i.divergent # <<>> THEN IterateOnSequence(i)
    ELSE IF i.inner # <<>>
    THEN LET candidate == Head(i.inner)
             rest      == [i EXCEPT !.inner = Tail(@)]
         IN  IF i.tail >= Len(i.sequence)
             THEN [it |-> [rest EXCEPT !.state = "panicked"], item |-> <<>>]
             ELSE IF candidate = i.sequence[i.tail + 1]
             THEN NextLoop([rest EXCEPT !.tail = @ + 1])
             ELSE NextLoop([rest EXCEPT !.divergent = <<candidate>>])
    ELSE IterateOnSequence(i)

\* UntilSequenceIterator::next
IteratorNext(i) ==
    IF i.tail = Len(i.sequence) THEN [it |-> i, item |-> <<>>]
    ELSE NextLoop(i)

(***************************************************************************)
(* drivers::stm32f4::qspi: the configuration builders and the indirect     *)
(* transfers of the QuadSPI driver                                         *)
(*                                                                         *)
(* A Config<MODE> is [data_rate, flash_mode, flash_size_bits, mode]; its   *)
(* fields are private to the module, so a caller only gets one from        *)
(* default() and the builders.                                             *)
(***************************************************************************)
MAX_DUMMY_CYCLES == 31

\* The flash sizes, in address bits, the driver knows.
FlashSizes == {8, 16, 24, 32}

\* <Config<MODE> as Default>::default
ConfigDefault(mode) ==
    [data_rate |-> "Single", flash_mode |-> "Single", flash_size_bits |-> 24,
     mode |-> mode]

\* Config::single, Config::double and Config::quad
ConfigSingle(config) == [config EXCEPT !.mode = "Single"]

ConfigDouble(config) == [config EXCEPT !.mode = "Dual"]

ConfigQuad(config) == [config EXCEPT !.mode = "Quad"]

\* Config::with_data_rate
WithDataRate(config, data_rate) == [config EXCEPT !.data_rate = data_rate]

\* Config::with_flash_mode
WithFlashMode(config, flash_mode) == [config EXCEPT !.flash_mode = flash_mode]

\* Mutant: any size is taken.
WithFlashSizeUnchecked(config, bits) ==
    [res |-> "Ok", config |-> <<[config EXCEPT !.flash_size_bits = bits]>>]

\* Config::with_flash_size: Ok(self) with the size set, or the error, the
\* configuration being consumed.
WithFlashSize(config, bits) ==
    IF bits \in FlashSizes
    THEN [res |-> "Ok", config |-> <<[config EXCEPT !.flash_size_bits = bits]>>]
    ELSE [res |-> "InvalidFlashSize", config |-> <<>>]

\* The registers of the driver before its first transfer.
NoTransfer == [fmode |-> 0, imode |-> 0, adsize |-> 0, admode |-> 0, dmode |-> 0,
               dcyc |-> 0, dlr |-> 0]

\* QuadSpi::from_config, for a Config<mode::Single>: the driver, holding
\* the configuration, or the error.
FromConfig(config) ==
    IF config.data_rate # "Single" \/ config.flash_mode # "Single"
    THEN [res |-> "NotYetImplemented", driver |-> <<>>]
    ELSE [res |-> "Ok",
          driver |-> <<[config |-> config,
                        fsize |-> SaturatingSub(config.flash_size_bits, 1),
                        transfer |-> NoTransfer]>>]

\* The match on flash_size_bits in Indirect::write and Indirect::read;
\* -1 stands for its last arm, the panic.
Adsize(flash_size_bits) ==
    CASE flash_size_bits = 8 -> 0
      [] flash_size_bits = 16 -> 1
      [] flash_size_bits = 24 -> 2
      [] flash_size_bits = 32 -> 3
      [] OTHER -> -1

\* <QuadSpi as Indirect>::write and read: fmode is 0 for a write and 1 for
\* a read; instruction, address and data are Options (a read always has
\* data); len is the length of the data.  The FIFO takes or gives every
\* byte after a finite wait.
Indirect(driver, fmode, instruction, address, data, len, dummy_cycles, busy) ==
    LET adsize == Adsize(driver.config.flash_size_bits)
        setup  == [fmode  |-> fmode,
                   imode  |-> IF instruction THEN 1 ELSE 0,
                   adsize |-> adsize,
                   admode |-> IF address THEN 1 ELSE 0,
                   dmode  |-> IF data THEN 1 ELSE 0,
                   dcyc   |-> dummy_cycles,
                   dlr    |-> IF data THEN SaturatingSub(len, 1) ELSE 0]
    IN  IF dummy_cycles > MAX_DUMMY_CYCLES
        THEN [res |-> "DummyCyclesValueOutOfRange", driver |-> driver]
        ELSE IF adsize = -1 THEN [res |-> "Panic", driver |-> driver]
        ELSE IF busy THEN [res |-> "WouldBlock", driver |-> driver]
        ELSE [res |-> "Ok", driver |-> [driver EXCEPT !.transfer = setup]]

\* Neither a configuration nor a driver has been made yet.
NoQspi == [state |-> "none", config |-> <<>>, driver |-> <<>>,
           call |-> "none", arg |-> 0, res |-> "Ok"]

(***************************************************************************)
(* State                                                                   *)
(***************************************************************************)
VARIABLES
    flash,        \* the mapped storage: MappedAddresses -> byte
    cr,           \* FLASH_CR: [lock, pg, ser, snb, psize]
    key,          \* FLASH_KEYR: how many keys of the sequence were accepted
    bsy,          \* FLASH_SR.BSY
    trace,        \* peripheral accesses of the current call, in order
    erases,       \* sectors erased by the hardware during the current call
    req,          \* the caller's request: [address, bytes]
    pc,           \* where the driver is: "idle", "write", "rewrite", "erase", "blocks",
                  \* "panicked"; "write_blocked" and "rewrite_blocked" when a
                  \* block!(...) of write has met the busy flag set
    op,           \* the public operation called last: "new", "write", "read", "erase"
    ret,          \* what that call returned: [tag, data]
    todo,         \* what the running loop still has to visit
    sector_data,  \* write's scratch copy of the sector being rewritten
    pre,          \* the storage as it was when the call was made
    it,           \* the iterator adapter of utilities::iterator under test
    qspi          \* the QuadSPI configuration or driver the caller holds and
                  \* its last call: [state, config, driver, call, arg, res]

vars ==
    <<flash, cr, key, bsy, trace, erases, req, pc, op, ret, todo, sector_data, pre, it,
      qspi>>

Machine ==
    [flash |-> flash, cr |-> cr, key |-> key, bsy |-> bsy,
     trace |-> trace, erases |-> erases]

\* The machine as a call finds it: nothing traced yet.
Entered == [Machine EXCEPT !.trace = <<>>, !.erases = <<>>]

SetMachine(m) ==
    /\ flash' = m.flash
    /\ cr' = m.cr
    /\ key' = m.key
    /\ bsy' = m.bsy
    /\ trace' = m.trace
    /\ erases' = m.erases

Result(tag) == [tag |-> tag, data |-> <<>>]

\* write_from_blocks' TRANSFER_SIZE, KB!(4) in the source: scaled like the
\* sectors, to the size of the larger ones.
TRANSFER_SIZE == 8

\* The writes write_from_blocks has made so far in the current call.
FlushCount(t) == Cardinality({i \in 1..Len(t) : t[i].ev = "flush"})

\* write_from_blocks makes one write per full transfer buffer and one for
\* the rest: some are still to come.
FlushesLeft(t) == FlushCount(t) < (Len(req.bytes) \div TRANSFER_SIZE) + 1

\* A call returns r.  A write made by write_from_blocks that returns Ok hands
\* back to the loop of write_from_blocks while it has writes left to make.
Returns(r) ==
    /\ pc' = IF op' = "write_from_blocks" /\ r.tag = "Ok" /\ FlushesLeft(trace')
             THEN "blocks" ELSE "idle"
    /\ ret' = IF op' = "write_from_blocks" /\ r.tag = "Ok" /\ FlushesLeft(trace')
              THEN [tag |-> "Pending", data |-> <<>>] ELSE r
    /\ todo' = <<>>
    /\ sector_data' = <<>>

(***************************************************************************)
(* Initial states                                                          *)
(***************************************************************************)
\* Byte values the buffers are made of.
Fill == {15, 255}

\* A buffer of the given length alternating between v and the other value.
Buffer(len, v) == [i \in 1..len |-> IF i % 2 = 1 THEN v ELSE 270 - v]

\* Every request: any address, any buffer of up to MaxLen bytes.
Requests ==
    {[address |-> a, bytes |-> Buffer(n, v)] :
        a \in Addresses, n \in 0..MaxLen, v \in Fill}

\* The requests around the start of the writable area, with short buffers.
DriverRequests ==
    {r \in Requests :
        /\ r.address \in (writable_start - 4)..(writable_start + DriverWindow)
        /\ Len(r.bytes) <= DriverMaxLen}

\* Storage images the controller may find: fully erased, or erased and
\* programmed in alternating stretches of 16 bytes, the programmed content
\* varying from byte to byte.
Programmed(a) == IF a % 3 = 0 THEN 15 ELSE IF a % 3 = 1 THEN 240 ELSE 255

Images ==
    { [a \in MappedAddresses |-> ERASED],
      [a \in MappedAddresses |->
          IF (a \div 16) % 2 = 1 THEN Programmed(a) ELSE ERASED] }

\* McuFlash::new: it panics on its assertion unless the map is sound; the
\* peripheral is as reset leaves it, locked and idle.  The caller holds one
\* of the requests.
InitWith(requests) ==
    /\ flash \in Images
    /\ cr = [lock |-> TRUE, pg |-> FALSE, ser |-> FALSE, snb |-> 0, psize |-> 0]
    /\ key = 0
    /\ bsy = FALSE
    /\ trace = <<>>
    /\ erases = <<>>
    /\ req \in requests
    /\ pc = IF MapIsSound THEN "idle" ELSE "panicked"
    /\ op = "new"
    /\ ret = IF MapIsSound THEN Result("Ok") ELSE Result("Panic")
    /\ todo = <<>>
    /\ sector_data = <<>>
    /\ pre = flash
    /\ it = NoIterator
    /\ qspi = NoQspi

Init == InitWith(DriverRequests)

(***************************************************************************)
(* Public operations of McuFlash (impl ReadWrite)                          *)
(*                                                                         *)
(* A call runs from one poll of the busy flag to the next in one step.     *)
(* Where the code waits in block!(...) the primitive is called again until *)
(* it no longer answers WouldBlock: WriteSpins is such a call, and the     *)
(* step that goes on is enabled once the hardware has cleared the flag.    *)
(***************************************************************************)
Calls(name) ==
    /\ pc = "idle"
    /\ op' = name
    /\ pre' = flash
    /\ req' = req
    /\ it' = it
    /\ qspi' = qspi

Proceeds(state, rest) ==
    /\ pc' = state
    /\ todo' = rest
    /\ sector_data' = <<>>
    /\ ret' = Result("Pending")

\* The loop goes on to what is left, or the call returns Ok.
Continues(state, rest) ==
    IF rest = <<>> THEN Returns(Result("Ok")) ELSE Proceeds(state, rest)

Within == UNCHANGED <<req, op, pre, it, qspi>>

\* What block!(...) keeps retrying on: WouldBlock from the primitive it
\* wraps, or a primitive that is itself waiting.
Blocked(res) == res \in {"WouldBlock", "Spins"}

\* Mutant: write looks at the busy flag before it validates the request.
WriteCallBusyFirst ==
    /\ Calls("write")
    /\ LET address == req.address
           bytes   == req.bytes
           range   == Range(address, WrapAdd(address, Len(bytes)))
           polled  == Logged(Entered, "bsy", IF IsBusy(Entered) THEN 1 ELSE 0)
       IN  IF IsBusy(Entered)
           THEN SetMachine(polled) /\ Returns(Result("WouldBlock"))
           ELSE IF IsMisaligned(address)
           THEN SetMachine(Entered) /\ Returns(Result("MisalignedAccess"))
           ELSE IF ~RangeIsWritable(range)
           THEN SetMachine(Entered) /\ Returns(Result("MemoryNotReachable"))
           ELSE SetMachine(polled) /\ Continues("write", Overlaps(bytes, address))

\* write(address, bytes): the checks made before the loop over the sectors.
WriteCall ==
    /\ Calls("write")
    /\ LET address == req.address
           bytes   == req.bytes
           range   == Range(address, WrapAdd(address, Len(bytes)))
           polled  == Logged(Entered, "bsy", IF IsBusy(Entered) THEN 1 ELSE 0)
       IN  IF IsMisaligned(address)
           THEN SetMachine(Entered) /\ Returns(Result("MisalignedAccess"))
           ELSE IF ~RangeIsWritable(range)
           THEN SetMachine(Entered) /\ Returns(Result("MemoryNotReachable"))
           ELSE IF IsBusy(Entered)
           THEN SetMachine(polled) /\ Returns(Result("WouldBlock"))
           ELSE SetMachine(polled) /\ Continues("write", Overlaps(bytes, address))

\* One turn of write's loop: read the sector, then program the block in
\* place or erase the sector.
WriteSector ==
    /\ pc \in {"write", "write_blocked"}
    /\ Within
    /\ \E t \in {Head(todo)} :
       \E s \in {SectorAt(t.sector)}, m0 \in {Logged(Machine, "read", t.sector)} :
       \E rd \in {Read(Machine, SectorStart(s), SectorEnd(s), s.size)},
          offset \in {SaturatingSub(t.address, SectorStart(s))},
          direct \in {WriteBytes(m0, t.block, s, t.address)},
          erased \in {EraseSector(m0, s)} :
           IF rd.tag # "Ok"
           THEN SetMachine(m0) /\ Returns(Result(rd.tag))
           ELSE IF FitsInPlace(t.block, rd.data, offset, s.size)
           THEN /\ ~Blocked(direct.res)
                /\ SetMachine(direct.m)
                /\ IF direct.res = "Ok" THEN Continues("write", Tail(todo))
                   ELSE Returns(Result(direct.res))
           ELSE /\ ~Blocked(erased.res)
                /\ SetMachine(erased.m)
                /\ IF erased.res = "Ok"
                   THEN /\ pc' = "rewrite"
                        /\ sector_data' = Overlay(rd.data, offset, t.block)
                        /\ UNCHANGED <<todo, ret>>
                   ELSE Returns(Result(erased.res))

\* The rest of the turn after an erase: program the whole sector back.
WriteRewrite ==
    /\ pc \in {"rewrite", "rewrite_blocked"}
    /\ Within
    /\ \E s \in {SectorAt(Head(todo).sector)} :
       \E out \in {WriteBytes(Machine, sector_data, s, s.location)} :
           /\ ~Blocked(out.res)
           /\ SetMachine(out.m)
           /\ IF out.res = "Ok" THEN Continues("write", Tail(todo))
              ELSE Returns(Result(out.res))

\* A block!(...) of write's loop goes round: the primitive it wraps met
\* the busy flag set, so it is called again.  Further rounds change nothing.
WriteSpins ==
    /\ pc \in {"write", "rewrite"}
    /\ Within
    /\ LET t       == Head(todo)
           s       == SectorAt(t.sector)
           rd      == Read(Machine, SectorStart(s), SectorEnd(s), s.size)
           offset  == SaturatingSub(t.address, SectorStart(s))
           pending == IF pc = "rewrite"
                      THEN WriteBytes(Machine, sector_data, s, s.location)
                      ELSE IF FitsInPlace(t.block, rd.data, offset, s.size)
                      THEN WriteBytes(Machine, t.block, s, t.address)
                      ELSE EraseSector(Machine, s)
       IN  /\ rd.tag = "Ok"
           /\ Blocked(pending.res)
    /\ pc' = IF pc = "write" THEN "write_blocked" ELSE "rewrite_blocked"
    /\ UNCHANGED <<flash, cr, key, bsy, trace, erases, ret, todo, sector_data>>

\* The sectors erase() visits: the writable ones, in table order.
RECURSIVE WritableFrom(_)
WritableFrom(i) ==
    IF i = SECTOR_NUMBER THEN <<>>
    ELSE (IF SectorIsWritable(SectorAt(i))
          THEN << [block |-> <<>>, sector |-> i, address |-> SectorStart(SectorAt(i))] >>
          ELSE <<>>) \o WritableFrom(i + 1)

\* erase(): entering the loop over the writable sectors.
EraseCall ==
    /\ Calls("erase")
    /\ SetMachine(Entered)
    /\ Continues("erase", WritableFrom(0))

\* One turn of erase()'s loop: self.erase(sector)?
EraseNext ==
    /\ pc = "erase"
    /\ Within
    /\ LET out == EraseSector(Machine, SectorAt(Head(todo).sector))
       IN  /\ SetMachine(out.m)
           /\ IF out.res = "Ok" THEN Continues("erase", Tail(todo))
              ELSE Returns(Result(out.res))

\* read(address, bytes) with a buffer as long as the request's.
ReadCall ==
    /\ Calls("read")
    /\ SetMachine(Entered)
    /\ Returns(Read(Machine, req.address,
                    WrapAdd(req.address, Len(req.bytes)), Len(req.bytes)))

\* address.0 + bytes.len() overflows u32: the debug build panics there
\* (the release build wraps, which WriteCall and ReadCall follow).
CallPanics ==
    /\ AddOverflows(req.address, Len(req.bytes))
    /\ \E name \in {"write", "read"} :
        /\ Calls(name)
        /\ name = "write" => req.address % 4 = 0
    /\ SetMachine(Entered)
    /\ pc' = "panicked"
    /\ ret' = Result("Panic")
    /\ UNCHANGED <<todo, sector_data>>

\* The hardware finishes the erase or the programming it was busy with.
HwDone ==
    /\ bsy
    /\ bsy' = FALSE
    /\ UNCHANGED <<flash, cr, key, trace, erases, req, pc, op, ret, todo,
                   sector_data, pre, it, qspi>>

\* The whole driver.  Its requests lie far from the end of the address
\* space, so no address computation overflows.
Next ==
    \/ WriteCall
    \/ WriteSector
    \/ WriteRewrite
    \/ WriteSpins
    \/ EraseCall
    \/ EraseNext
    \/ ReadCall
    \/ HwDone

Spec == Init /\ [][Next]_vars

\* write and read alone, for every request.
WriteNext ==
    \/ WriteCall
    \/ WriteSector
    \/ WriteRewrite
    \/ WriteSpins
    \/ ReadCall
    \/ CallPanics
    \/ HwDone

WriteSpec == InitWith(Requests) /\ [][WriteNext]_vars

(***************************************************************************)
(* Vocabulary of the properties                                            *)
(***************************************************************************)
ReqLen == Len(req.bytes)

\* Offsets of the request's bytes that land in sector i.
LandsIn(i) == {k \in 0..(ReqLen - 1) : SectorContains(SectorAt(i), req.address + k)}

TouchedSectors == {i \in SectorIndices : LandsIn(i) # {}}

\* The request's bytes landing in sector i only ask for bits that were set
\* in the storage when the call was made.
SubsetInSector(i) ==
    \A k \in LandsIn(i) :
        BitAnd(req.bytes[k + 1], pre[req.address + k]) = req.bytes[k + 1]

EraseCount(i) == Cardinality({n \in 1..Len(erases) : erases[n] = i})

InRequest(a) == a >= req.address /\ a < req.address + ReqLen

InsideWritable ==
    /\ req.address >= writable_start
    /\ req.address + ReqLen <= writable_end

WriteReturned(tag) == pc = "idle" /\ op = "write" /\ ret.tag = tag

(***************************************************************************)
(* Properties of write and read (WriteSpec)                                *)
(***************************************************************************)
\* C1: after write(address, X) returned Ok for an aligned request inside the
\* writable area, read(address, len(X)) returns Ok and exactly X, whichever
\* path each sector took.
C1_RoundTrip ==
    (WriteReturned("Ok") /\ req.address % 4 = 0 /\ InsideWritable)
        => Read(Machine, req.address, req.address + ReqLen, ReqLen)
             = [tag |-> "Ok", data |-> req.bytes]

\* A write over two or more sectors returned Ok having erased some of them
\* and programmed the others in place.
C1_Witness ==
    /\ WriteReturned("Ok")
    /\ InsideWritable
    /\ Cardinality(TouchedSectors) >= 2
    /\ \E i, j \in TouchedSectors : EraseCount(i) = 1 /\ EraseCount(j) = 0
    /\ Read(Machine, req.address, req.address + ReqLen, ReqLen).data = req.bytes

\* C2: a successful write erases each sector it touches zero times if the
\* bytes landing in it are a bitwise subset of the sector's prior bytes at
\* their place, and exactly once otherwise.
C2_EraseCount ==
    WriteReturned("Ok")
        => \A i \in TouchedSectors :
             EraseCount(i) = IF SubsetInSector(i) THEN 0 ELSE 1

\* A write over three sectors returned Ok: it erased one whose bytes were
\* no subset and left alone one whose bytes were.
C2_Witness ==
    /\ WriteReturned("Ok")
    /\ Cardinality(TouchedSectors) = 3
    /\ \E i, j \in TouchedSectors :
        /\ ~SubsetInSector(i) /\ EraseCount(i) = 1
        /\ SubsetInSector(j) /\ EraseCount(j) = 0

\* C3: after a successful write, a sector that was erased and rewritten
\* holds its prior content with the request's bytes laid over it.
C3_RewritePreserves ==
    WriteReturned("Ok")
        => \A i \in TouchedSectors :
             EraseCount(i) > 0
                => \A a \in MappedAddresses :
                     SectorContains(SectorAt(i), a)
                        => flash[a] = IF InRequest(a)
                                      THEN req.bytes[a - req.address + 1]
                                      ELSE pre[a]

\* A rewritten sector keeps programmed bytes on both sides of the request.
C3_Witness ==
    /\ WriteReturned("Ok")
    /\ \E i \in TouchedSectors :
        /\ EraseCount(i) = 1
        /\ \E a, b \in MappedAddresses :
            /\ SectorContains(SectorAt(i), a) /\ SectorContains(SectorAt(i), b)
            /\ a < req.address /\ b >= req.address + ReqLen
            /\ pre[a] # ERASED /\ pre[b] # ERASED
            /\ flash[a] = pre[a] /\ flash[b] = pre[b]

\* C4: a write that programs every sector in place leaves every byte
\* outside the request's range as it was.
C4_DirectProgramTouchesOnlyTarget ==
    (WriteReturned("Ok") /\ erases = <<>>)
        => \A a \in MappedAddresses : ~InRequest(a) => flash[a] = pre[a]

\* C5: write at an address that is no multiple of 4 returns
\* MisalignedAccess and touches nothing: no peripheral access, no erase, and
\* storage and registers stay as they were, busy or not, reachable or not.
C5_MisalignedTouchesNothing ==
    [][(WriteCall /\ req.address % 4 # 0)
         => /\ ret'.tag = "MisalignedAccess"
            /\ trace' = <<>>
            /\ erases' = <<>>
            /\ UNCHANGED <<flash, cr, key, bsy>>]_vars

\* A misaligned write outside the writable area was refused while the
\* peripheral was busy.
C5_Witness ==
    /\ WriteReturned("MisalignedAccess")
    /\ bsy
    /\ ~InsideWritable

\* C6: an aligned write or a read whose range is not contained in
\* [writable_start, writable_end) returns MemoryNotReachable.
C6_OutsideWritableIsRejected ==
    ( /\ pc = "idle"
      /\ op \in {"write", "read"}
      /\ op = "write" => req.address % 4 = 0
      /\ ~AddOverflows(req.address, ReqLen)
      /\ ~InsideWritable )
        => ret.tag = "MemoryNotReachable"

\* C7: a valid write called while the peripheral is busy returns WouldBlock,
\* and a write that returns WouldBlock leaves storage and registers as they
\* were.
C7_WouldBlockChangesNothing ==
    [][WriteCall
         => /\ ( /\ req.address % 4 = 0
                 /\ RangeIsWritable(Range(req.address, WrapAdd(req.address, ReqLen)))
                 /\ bsy )
                  => ret'.tag = "WouldBlock"
            /\ ret'.tag = "WouldBlock" => UNCHANGED <<flash, cr, key, bsy>>]_vars

\* A write was answered WouldBlock.
C7_Witness == WriteReturned("WouldBlock") /\ bsy /\ InsideWritable /\ ReqLen > 0

(***************************************************************************)
(* Order of the operations within one write (WriteSpec)                    *)
(***************************************************************************)
\* The sector an entry of the trace is about: the one read, the one whose
\* erase is started, the one holding the programmed word.
IsSectorEvent(e) == e.ev \in {"read", "strt", "word"}

IsIssue(e) == e.ev \in {"strt", "word"}

EventSector(e) ==
    IF e.ev = "word"
    THEN CHOOSE i \in SectorIndices : SectorContains(SectorAt(i), e.arg)
    ELSE e.arg

\* C10: within a write the sectors are visited in strictly ascending address
\* order, no operation goes back to an earlier sector, and between the last
\* erase or program of one sector and the first of the next the busy flag
\* was read clear.
C10_SectorsInOrder ==
    op = "write"
        => \A i, j \in 1..Len(trace) :
             (i < j /\ IsSectorEvent(trace[i]) /\ IsSectorEvent(trace[j]))
                => LET a == SectorAt(EventSector(trace[i]))
                       b == SectorAt(EventSector(trace[j]))
                   IN  /\ SectorStart(a) <= SectorStart(b)
                       /\ (trace[i].ev = "read" /\ trace[j].ev = "read")
                            => SectorStart(a) < SectorStart(b)
                       /\ (a # b /\ IsIssue(trace[i]) /\ IsIssue(trace[j]))
                            => \E k \in (i + 1)..(j - 1) : trace[k] = Event("bsy", 0)

\* A write over three sectors ran to its end, erasing and programming.
C10_Witness ==
    /\ WriteReturned("Ok")
    /\ Cardinality({i \in 1..Len(trace) : trace[i].ev = "read"}) = 3
    /\ \E i \in 1..Len(trace) : trace[i].ev = "strt"
    /\ \E i \in 1..Len(trace) : trace[i].ev = "word"

(***************************************************************************)
(* Properties of erase()                                                   *)
(***************************************************************************)
InMainSector(a) ==
    \E i \in SectorIndices : SectorAt(i).block = "Main" /\ SectorContains(SectorAt(i), a)

NonMainAddresses == {a \in MappedAddresses : ~InMainSector(a)}

\* C8: erase() starts erases of Main sectors only, and no step of it
\* changes a byte outside the Main sectors.
C8_EraseOnlyMain ==
    [][op' = "erase"
         => /\ \A k \in 1..Len(erases') : SectorAt(erases'[k]).block = "Main"
            /\ \A a \in NonMainAddresses : flash'[a] = flash[a]]_vars

\* erase() returned Ok after erasing every Main sector of a programmed
\* storage.
C8_Witness ==
    /\ pc = "idle" /\ op = "erase" /\ ret.tag = "Ok"
    /\ Len(erases) = Len(WritableFrom(0))
    /\ \E a \in NonMainAddresses : flash[a] # ERASED

\* erase() alone, retried by the caller for ever, the hardware finishing
\* every erase it started.
EraseOnlyNext ==
    \/ EraseCall
    \/ EraseNext
    \/ HwDone

EraseFairSpec ==
    /\ InitWith({[address |-> writable_start, bytes |-> <<>>]})
    /\ [][EraseOnlyNext]_vars
    /\ WF_vars(EraseCall)
    /\ WF_vars(EraseNext)
    /\ WF_vars(HwDone)

\* C9: called again whenever it returned WouldBlock, erase() eventually
\* returns Ok.
C9_EraseEventuallyOk == <>(pc = "idle" /\ op = "erase" /\ ret.tag = "Ok")

(***************************************************************************)
(* The memory map and the ranges: span, overlaps, range() and is_sound     *)
(* applied to the range of every request                                   *)
(***************************************************************************)
\* The range write and read build from a request.
RequestRange == Range(req.address, WrapAdd(req.address, Len(req.bytes)))

\* Range(address, address + len).span()
SpanCall ==
    /\ Calls("span")
    /\ SetMachine(Entered)
    /\ Returns([tag |-> "Ok", data |-> RangeSpan(RequestRange)])

\* Range(address, address + len).overlaps(&MEMORY_MAP.sectors[i])
OverlapsCall ==
    \E i \in SectorIndices :
        /\ Calls("overlaps")
        /\ SetMachine(Entered)
        /\ Returns([tag |-> "Ok",
                    data |-> <<i, RangeOverlaps(RequestRange, SectorAt(i))>>])

\* <McuFlash as ReadWrite>::range
RangeCall ==
    /\ Calls("range")
    /\ SetMachine(Entered)
    /\ Returns([tag |-> "Ok", data |-> <<writable_start, writable_end>>])

\* Range(address, address + len).is_valid()
IsValidCall ==
    /\ Calls("is_valid")
    /\ SetMachine(Entered)
    /\ Returns([tag |-> "Ok", data |-> <<RangeIsValid(RequestRange)>>])

\* impl Add<usize> for Address: Address(self.0 + rhs as u32), which wraps
\* around in a release build ...
AddCall ==
    /\ Calls("add")
    /\ SetMachine(Entered)
    /\ Returns([tag |-> "Ok", data |-> <<WrapAdd(req.address, Len(req.bytes))>>])

\* ... and panics on overflow in a debug build.
AddPanics ==
    /\ AddOverflows(req.address, Len(req.bytes))
    /\ Calls("add")
    /\ SetMachine(Entered)
    /\ pc' = "panicked"
    /\ ret' = Result("Panic")
    /\ UNCHANGED <<todo, sector_data>>

MapNext ==
    \/ SpanCall
    \/ OverlapsCall
    \/ RangeCall
    \/ IsValidCall
    \/ AddCall
    \/ AddPanics

MapSpec ==
    /\ InitWith({r \in Requests : Len(r.bytes) = 0 \/ r.bytes[1] = ERASED})
    /\ [][MapNext]_vars

\* The half-open interval [low, high) shares an address with the sector.
Intersects(r, s) == r[1] < r[2] /\ r[1] < SectorEnd(s) /\ r[2] > SectorStart(s)

\* A range that is not empty and lies in the main memory area, from the
\* first sector of the table to the end of the writable area.
InMainMemoryArea(r) ==
    /\ r[1] < r[2]
    /\ r[1] >= SectorStart(SectorAt(0))
    /\ r[2] <= writable_end

\* C16: for a valid range lying inside the map, span() is the slice of the
\* sectors that intersect [low, high), in address order: none missing and
\* none that does not intersect it.
C16_SpanIsExact ==
    (pc = "idle" /\ op = "span" /\ RangeIsValid(RequestRange)
        /\ InMainMemoryArea(RequestRange))
        => /\ {ret.data[k] : k \in 1..Len(ret.data)}
                = {i \in SectorIndices : Intersects(RequestRange, SectorAt(i))}
           /\ \A k \in 1..(Len(ret.data) - 1) : ret.data[k] < ret.data[k + 1]

\* C17: overlaps(sector) is true for a range that shares an address with
\* the sector and false for one that only touches it: high = sector.start
\* or low = sector.end.
C17_TouchingIsNoOverlap ==
    (pc = "idle" /\ op = "overlaps" /\ RequestRange[1] < RequestRange[2])
        => LET s == SectorAt(ret.data[1])
           IN  /\ Intersects(RequestRange, s) => ret.data[2]
               /\ ( \/ RequestRange[2] = SectorStart(s)
                    \/ RequestRange[1] = SectorEnd(s) ) => ~ret.data[2]

\* C18: range() returns the start of the first Main sector (sectors[4]) and
\* the end of the last sector of the run of Main sectors that begins there
\* (sectors[11]), the same on every call, and every address between them
\* lies in a Main sector.
C18_WritableRange ==
    (pc = "idle" /\ op = "range")
        => /\ ret.data = <<SectorStart(SectorAt(4)), SectorEnd(SectorAt(11))>>
           /\ ret.data = <<writable_start, writable_end>>
           /\ \A i \in SectorIndices :
                (SectorAt(i).block = "Main") = (i >= 4 /\ i <= 11)
           /\ \A a \in ret.data[1]..(ret.data[2] - 1) : InMainSector(a)

\* range() was called and returned a writable area that is not empty.
C18_Witness ==
    /\ pc = "idle" /\ op = "range" /\ ret.tag = "Ok"
    /\ ret.data[1] < ret.data[2]

SectorsOverlap(a, b) ==
    SectorStart(a) < SectorEnd(b) /\ SectorStart(b) < SectorEnd(a)

\* Two sectors of the map share an address, or two consecutive sectors of
\* the main memory area do not follow one another without a gap.
MapIsUnsound ==
    \/ \E i, j \in SectorIndices :
          i # j /\ SectorsOverlap(SectorAt(i), SectorAt(j))
    \/ \E i, j \in SectorIndices :
          /\ i < j
          /\ SectorIsInMainMemoryArea(SectorAt(i))
          /\ SectorIsInMainMemoryArea(SectorAt(j))
          /\ \A k \in (i + 1)..(j - 1) : ~SectorIsInMainMemoryArea(SectorAt(k))
          /\ SectorEnd(SectorAt(i)) # SectorStart(SectorAt(j))

\* C19: with a map in which two sectors overlap or two consecutive
\* main-area sectors are not contiguous, is_sound is false and new panics
\* on its assertion.
C19_UnsoundMapFailsNew ==
    (op = "new" /\ MapIsUnsound) => (~MapIsSound /\ ret.tag = "Panic")

\* C20: the declared map passes is_sound, so new returns Ok.
C20_DeclaredMapIsSound ==
    /\ MapIsSound
    /\ op = "new" => (pc = "idle" /\ ret.tag = "Ok")

\* new has returned a controller for the declared map.
C20_Witness ==
    /\ op = "new" /\ pc = "idle" /\ ret.tag = "Ok"
    /\ MapIsSound
    /\ cr.lock /\ ~bsy

\* C24: Address + size saturates: the sum is min(a + n, 2^32 - 1), the top
\* of the address space, and never wraps around or overflows.
C24_AddSaturates ==
    op = "add"
        => /\ ret.tag = "Ok"
           /\ ret.data = << IF req.address + ReqLen > AddressSpace - 1
                            THEN AddressSpace - 1
                            ELSE req.address + ReqLen >>

\* C28: is_valid is true exactly for the ranges with high >= low that lie
\* neither entirely before the start of the first sector nor entirely at
\* or after the end of the last one; so every such range inside the first
\* sector is valid.
C28_IsValidIffInsideMap ==
    (pc = "idle" /\ op = "is_valid")
        => ret.data[1]
             = ( /\ RequestRange[2] >= RequestRange[1]
                 /\ ~(RequestRange[2] <= SectorStart(SectorAt(0)))
                 /\ ~(RequestRange[1] >= SectorEnd(SectorAt(SECTOR_NUMBER - 1))) )

\* C29: span() falls back to the first sector only for ranges that is_valid
\* rejects: a range that is_valid accepts is overlapped by some sector.
C29_FallbackOnlyForInvalid ==
    ( /\ pc = "idle" /\ op = "span"
      /\ RangeIsValid(RequestRange)
      /\ RequestRange[1] < RequestRange[2] )
        => \E i \in SectorIndices : RangeOverlaps(RequestRange, SectorAt(i))

(***************************************************************************)
(* The iterator adapters, applied to every short sequence of items         *)
(***************************************************************************)
MaxItem == 3

MaxInner == 4

MaxSequence == 2

Items == 1..MaxItem

SequencesUpTo(n) == UNION {[1..k -> Items] : k \in 0..n}

Others == UNCHANGED <<flash, cr, key, bsy, trace, erases, req, pc, op, ret, todo,
                      sector_data, pre, qspi>>

\* inner.until_sequence(sequence) for a sequence that is not empty
UntilSequenceCall ==
    /\ it.state = "none"
    /\ \E inner \in SequencesUpTo(MaxInner), sequence \in SequencesUpTo(MaxSequence) :
        /\ sequence # <<>>
        /\ it' = UntilSequenceIterator(inner, sequence)
    /\ Others

\* One call of next() by the consumer, which stops at the first None.
UntilSequenceNext ==
    /\ it.state = "ready"
    /\ LET out == IteratorNext(it)
       IN  it' = IF out.it.state = "panicked" THEN out.it
                 ELSE IF out.item = <<>> THEN [out.it EXCEPT !.state = "done"]
                 ELSE [out.it EXCEPT !.yielded = @ \o out.item]
    /\ Others

\* elements.iter().all_unique()
AllUniqueCall ==
    /\ it.state = "none"
    /\ \E elements \in SequencesUpTo(MaxInner) :
        it' = [NoIterator EXCEPT !.state = "unique", !.source = elements,
                                 !.unique = AllUnique(elements)]
    /\ Others

IteratorSpecNext ==
    \/ UntilSequenceCall
    \/ UntilSequenceNext
    \/ AllUniqueCall

IteratorSpec ==
    /\ InitWith({[address |-> writable_start, bytes |-> <<>>]})
    /\ [][IteratorSpecNext]_vars

\* The sequence occurs in the elements right after the first k of them.
OccursAt(elements, sequence, k) ==
    /\ k + Len(sequence) <= Len(elements)
    /\ \A j \in 1..Len(sequence) : elements[k + j] = sequence[j]

\* The elements before the first occurrence of the sequence, or all of
\* them if it does not occur.
BeforeSequence(elements, sequence) ==
    LET found == {k \in 0..Len(elements) : OccursAt(elements, sequence, k)}
    IN  IF found = {} THEN elements
        ELSE SubSeq(elements, 1, CHOOSE k \in found : \A j \in found : k <= j)

\* C25: until_sequence yields the inner elements that come before the
\* first occurrence of the sequence, in order, then None, and every inner
\* element if the sequence does not occur.
C25_StopsBeforeSequence ==
    /\ it.state # "panicked"
    /\ it.state = "done" => it.yielded = BeforeSequence(it.source, it.sequence)

\* C26: all_unique is true exactly when no two elements at different
\* positions are equal.
C26_AllUniqueIffNoRepeat ==
    it.state = "unique"
        => it.unique = (\A i, j \in 1..Len(it.source) :
                            i # j => it.source[i] # it.source[j])

\* all_unique answered false for elements of which only two that are not
\* next to each other are equal.
C26_Witness ==
    /\ it.state = "unique"
    /\ ~it.unique
    /\ Len(it.source) >= 3
    /\ \A i \in 1..(Len(it.source) - 1) : it.source[i] # it.source[i + 1]

(***************************************************************************)
(* The protocol between the driver and the peripheral                      *)
(***************************************************************************)
\* C11: a primitive called while the busy flag is set answers WouldBlock at
\* once, and write never goes round inside a block!(...) waiting for the
\* flag to clear.
C11_NeverWaitsInside ==
    /\ pc \notin {"write_blocked", "rewrite_blocked"}
    /\ bsy =>
         /\ Unlock(Machine).res = "WouldBlock"
         /\ \A i \in SectorIndices :
              LET s == SectorAt(i)
              IN  /\ SectorNumber(s) # -1
                       => EraseSector(Machine, s).res = "WouldBlock"
                  /\ WriteBytes(Machine, <<ERASED>>, s, SectorStart(s)).res
                       = "WouldBlock"

\* C12: erase(sector) and write_bytes leave the peripheral locked whatever
\* they answer (tried on a sector that has a number and on one that has
\* none, inside and outside its bounds, busy or not), and the peripheral is
\* locked whenever the driver is between two primitives or two public
\* operations.
C12_LockedOnReturn ==
    /\ cr.lock
    /\ \A i \in {FirstWritableFrom(0), SECTOR_NUMBER - 1} :
         LET s == SectorAt(i)
         IN  /\ EraseSector(Machine, s).m.cr.lock
             /\ \A a \in {SectorStart(s) - 1, SectorStart(s)} :
                  WriteBytes(Machine, <<ERASED>>, s, a).m.cr.lock

\* A write that erased a sector and programmed it returned Ok and left the
\* peripheral locked, SER and PG still set from its two primitives.
C12_Witness ==
    /\ WriteReturned("Ok")
    /\ erases # <<>>
    /\ cr.lock /\ cr.ser /\ cr.pg

CountEvents(ev) == Cardinality({i \in 1..Len(trace) : trace[i].ev = ev})

\* C13: every erase start and every word program of a call comes after the
\* two unlock keys, written one after the other in their order, with no
\* lock in between; and the hardware took every erase start it was given.
C13_PrivilegedOnlyUnlocked ==
    /\ \A i \in 1..Len(trace) :
         IsIssue(trace[i])
            => \E k \in 1..(i - 2) :
                 /\ trace[k] = Event("keyr", 1)
                 /\ trace[k + 1] = Event("keyr", 2)
                 /\ \A l \in (k + 2)..(i - 1) : trace[l].ev # "lock"
    /\ CountEvents("strt") = Len(erases)

\* A call erased a sector and programmed words.
C13_Witness ==
    /\ pc = "idle"
    /\ CountEvents("strt") = 1
    /\ CountEvents("word") > 0
    /\ CountEvents("keyr") = 4

\* The accesses that write to the peripheral or program the storage.
IsPeripheralWrite(e) == e.ev \in {"keyr", "cr", "pg", "strt", "lock", "word"}

\* C14: after an erase start or a word program the driver makes no further
\* write to the peripheral before it has read the busy flag clear.
C14_WaitsForCompletion ==
    \A i, j \in 1..Len(trace) :
        (i < j /\ IsIssue(trace[i]) /\ IsPeripheralWrite(trace[j]))
            => \E k \in (i + 1)..(j - 1) : trace[k] = Event("bsy", 0)

\* C15: read makes no access to the peripheral, returns Ok or
\* MemoryNotReachable whether the peripheral is busy or not, and leaves
\* storage and registers as they were.
C15_ReadTouchesNothing ==
    [][ReadCall
         => /\ ret'.tag \in {"Ok", "MemoryNotReachable"}
            /\ trace' = <<>>
            /\ UNCHANGED <<flash, cr, key, bsy>>]_vars

\* A read returned the stored bytes while the peripheral was busy.
C15_Witness ==
    /\ pc = "idle" /\ op = "read" /\ ret.tag = "Ok"
    /\ bsy
    /\ ReqLen > 0
    /\ \A k \in 1..ReqLen : ret.data[k] = flash[req.address + k - 1]

(***************************************************************************)
(* The primitives erase(sector) and write_bytes called on their own, on    *)
(* any sector and with any block, up to MaxPrimitiveCalls times in a row   *)
(***************************************************************************)
MaxPrimitiveCalls == 2

\* The requests the primitives are tried with: short blocks at the start
\* and at the end of the first writable sector and at the top of the
\* address space.
PrimitiveRequests ==
    {r \in Requests :
        /\ r.address \in {writable_start, writable_start + 3, AddressSpace - 1}
        /\ Len(r.bytes) <= DriverMaxLen}

\* The sectors of the map, and one that is not in it.
ProbedSectors ==
    {SectorAt(i) : i \in SectorIndices} \cup {Sector("Main", writable_start + 1, 4)}

PrimitiveCalled(name) ==
    /\ CountEvents("call") < MaxPrimitiveCalls
    /\ Calls(name)

\* self.erase(sector)
EraseSectorCall ==
    \E s \in ProbedSectors :
        /\ PrimitiveCalled("erase_sector")
        /\ LET out == EraseSector(Logged(Machine, "call", 0), s)
           IN  /\ SetMachine(out.m)
               /\ Returns([tag |-> out.res, data |-> <<s>>])

\* self.write_bytes(bytes, sector, address), waiting in its block! while the
\* peripheral is busy.
ProgramCall ==
    \E s \in ProbedSectors :
        /\ PrimitiveCalled("program")
        /\ LET out == WriteBytes(Logged(Machine, "call", 0), req.bytes, s, req.address)
           IN  /\ out.res # "Spins"
               /\ SetMachine(out.m)
               /\ Returns([tag |-> out.res, data |-> <<s>>])

\* The debug build of write_bytes: address + bytes.len() is evaluated when
\* address >= sector.start() and panics if it overflows.
ProgramPanics ==
    \E s \in ProbedSectors :
        /\ req.address >= SectorStart(s)
        /\ AddOverflows(req.address, Len(req.bytes))
        /\ PrimitiveCalled("program")
        /\ SetMachine(Logged(Machine, "call", 0))
        /\ pc' = "panicked"
        /\ ret' = [tag |-> "Panic", data |-> <<s>>]
        /\ UNCHANGED <<todo, sector_data>>

PrimitiveNext ==
    \/ EraseSectorCall
    \/ ProgramCall
    \/ ProgramPanics
    \/ HwDone

PrimitiveSpec == InitWith(PrimitiveRequests) /\ [][PrimitiveNext]_vars

\* The sector is one of the map's and lies in the main memory area.
InMapMainArea(s) ==
    \E i \in SectorIndices : SectorAt(i) = s /\ SectorIsInMainMemoryArea(s)

\* C22: erase(sector) for a sector outside the main memory area, or not in
\* the map, returns MemoryNotReachable, busy or not, with no access to the
\* peripheral: no key written, nothing unlocked, no erase started.
C22_EraseOutsideMainArea ==
    [][(EraseSectorCall /\ ~InMapMainArea(ret'.data[1]))
         => /\ ret'.tag = "MemoryNotReachable"
            /\ trace' = Append(trace, Event("call", 0))
            /\ UNCHANGED <<flash, cr, key, bsy, erases>>]_vars

\* erase(sector) refused the OptionBytes sector while an erase was going on.
C22_Witness ==
    /\ pc = "idle" /\ op = "erase_sector"
    /\ ret.tag = "MemoryNotReachable"
    /\ ret.data[1].block = "OptionBytes"
    /\ bsy
    /\ cr.lock

\* C23: write_bytes returns MisalignedAccess whenever address < sector.start
\* or address + len > sector.end, without unlocking and without programming
\* a word; so every word it programs is at an address inside the sector.
C23_ProgramOutsideSector ==
    [][(ProgramCall \/ ProgramPanics)
         => LET s == ret'.data[1]
            IN  /\ (req.address < SectorStart(s) \/ req.address + ReqLen > SectorEnd(s))
                     => /\ ret'.tag = "MisalignedAccess"
                        /\ trace' = Append(trace, Event("call", 0))
                        /\ UNCHANGED <<flash, cr, key, bsy>>
                /\ \A k \in (Len(trace) + 1)..Len(trace') :
                     trace'[k].ev = "word" => SectorContains(s, trace'[k].arg)]_vars

\* The same for the calls in which address + len fits in the address space.
ProgramOutsideSectorWithoutOverflow ==
    [][((ProgramCall \/ ProgramPanics) /\ ~AddOverflows(req.address, ReqLen))
         => LET s == ret'.data[1]
            IN  /\ (req.address < SectorStart(s) \/ req.address + ReqLen > SectorEnd(s))
                     => /\ ret'.tag = "MisalignedAccess"
                        /\ trace' = Append(trace, Event("call", 0))
                        /\ UNCHANGED <<flash, cr, key, bsy>>
                /\ \A k \in (Len(trace) + 1)..Len(trace') :
                     trace'[k].ev = "word" => SectorContains(s, trace'[k].arg)]_vars

\* The position of the sector of index i among the sectors of the main
\* memory area.
PositionInMainArea(i) ==
    Cardinality({j \in SectorIndices : j < i /\ SectorIsInMainMemoryArea(SectorAt(j))})

\* C30: number() is the position of a Reserved or Main sector among the
\* sectors of the main memory area and None for any other sector; it tells
\* the main-area sectors apart (both computed for every sector of the map
\* once the controller is constructed), and erase(sector) writes it to SNB.
C30_NumberIsMainAreaPosition ==
    /\ op = "new"
         => /\ \A i \in SectorIndices :
                 SectorNumber(SectorAt(i)) = IF SectorIsInMainMemoryArea(SectorAt(i))
                                             THEN PositionInMainArea(i) ELSE -1
            /\ \A i, j \in SectorIndices :
                 (i # j /\ SectorNumber(SectorAt(i)) # -1)
                    => SectorNumber(SectorAt(i)) # SectorNumber(SectorAt(j))
    /\ (pc = "idle" /\ op = "erase_sector" /\ ret.tag = "Ok")
         => \E i \in SectorIndices :
              /\ SectorAt(i) = ret.data[1]
              /\ cr.snb = PositionInMainArea(i)
              /\ erases[Len(erases)] = i

\* erase(sector) erased the last Main sector, the twelfth of the main area.
C30_Witness ==
    /\ pc = "idle" /\ op = "erase_sector" /\ ret.tag = "Ok"
    /\ ret.data[1] = SectorAt(LastWritableFrom(FirstWritableFrom(0)))
    /\ cr.snb = SectorNumber(ret.data[1])
    /\ cr.snb > 0
    /\ cr.ser

(***************************************************************************)
(* write_from_blocks                                                       *)
(*                                                                         *)
(* The blocks are the request's bytes cut into pieces of N bytes, for an N *)
(* that divides TRANSFER_SIZE (asserted) and the length; the transfer      *)
(* buffer is full, and flushed, each time TRANSFER_SIZE more bytes have    *)
(* been copied, whatever N is.  The requests lie far from the top of the   *)
(* address space, so address + memory_index does not overflow.             *)
(***************************************************************************)
MaxBlocksLen == 17

BlocksRequests ==
    {[address |-> a, bytes |-> Buffer(n, v)] :
        a \in {writable_start - 2, writable_start, writable_end - TRANSFER_SIZE},
        n \in 0..MaxBlocksLen, v \in Fill}

\* write_from_blocks(address, blocks): entering the loop over the blocks.
BlocksCall ==
    /\ Calls("write_from_blocks")
    /\ SetMachine(Entered)
    /\ Proceeds("blocks", <<>>)

\* nb::block!(self.write(address + flushed, buffer)) for a full transfer
\* buffer or, after the last block, for the rest: the checks of write, which
\* is called again while it answers WouldBlock.
FlushCall ==
    /\ pc = "blocks"
    /\ Within
    /\ LET flushed == FlushCount(trace) * TRANSFER_SIZE
           upto    == IF flushed + TRANSFER_SIZE <= Len(req.bytes)
                      THEN flushed + TRANSFER_SIZE ELSE Len(req.bytes)
           bytes   == Slice(req.bytes, flushed, upto)
           address == req.address + flushed
           range   == Range(address, WrapAdd(address, Len(bytes)))
           called  == Logged(Machine, "flush", address)
           polled  == Logged(called, "bsy", 0)
       IN  IF IsMisaligned(address)
           THEN SetMachine(called) /\ Returns(Result("MisalignedAccess"))
           ELSE IF ~RangeIsWritable(range)
           THEN SetMachine(called) /\ Returns(Result("MemoryNotReachable"))
           ELSE /\ ~IsBusy(Machine)
                /\ SetMachine(polled)
                /\ Continues("write", Overlaps(bytes, address))

BlocksNext ==
    \/ BlocksCall
    \/ FlushCall
    \/ WriteSector
    \/ WriteRewrite
    \/ WriteSpins
    \/ HwDone

BlocksSpec == InitWith(BlocksRequests) /\ [][BlocksNext]_vars

BlocksReturned(tag) == pc = "idle" /\ op = "write_from_blocks" /\ ret.tag = tag

\* The writes of the call: one per full transfer buffer, each at the
\* address plus what was flushed before, then one for the rest.
FlushedInOrder ==
    LET flushes == SelectSeq(trace, LAMBDA e : e.ev = "flush")
    IN  /\ Len(flushes) = (ReqLen \div TRANSFER_SIZE) + 1
        /\ \A k \in 1..Len(flushes) :
             flushes[k].arg = req.address + (k - 1) * TRANSFER_SIZE

\* The storage holds the blocks, in order, from the address on.
HoldsTheBlocks ==
    \A k \in 1..ReqLen : flash[req.address + k - 1] = req.bytes[k]

\* C21: after write_from_blocks returned Ok it has made one write per full
\* transfer buffer and one for the rest, the storage from the address on
\* holds the blocks in input order, and no byte outside that range changed.
C21_BlocksAsOneWrite ==
    BlocksReturned("Ok")
        => /\ FlushedInOrder
           /\ HoldsTheBlocks
           /\ \A a \in MappedAddresses : ~InRequest(a) => flash[a] = pre[a]

\* C27: write checks the alignment first, then the range, then the busy
\* flag: a misaligned request is answered MisalignedAccess and an aligned
\* one with a range that is not writable MemoryNotReachable, busy or not,
\* and WouldBlock is answered only to aligned requests with a writable range.
C27_ValidationOrder ==
    [][WriteCall
         => /\ req.address % 4 # 0 => ret'.tag = "MisalignedAccess"
            /\ (req.address % 4 = 0 /\ ~RangeIsWritable(RequestRange))
                  => ret'.tag = "MemoryNotReachable"
            /\ ret'.tag = "WouldBlock"
                  => /\ req.address % 4 = 0
                     /\ RangeIsWritable(RequestRange)
                     /\ bsy]_vars

\* An aligned write to a range that is not writable was refused while the
\* peripheral was busy.
C27_Witness ==
    /\ WriteReturned("MemoryNotReachable")
    /\ req.address % 4 = 0
    /\ bsy

(***************************************************************************)
(* The overlap decomposition as write uses it (WriteSpec)                  *)
(***************************************************************************)
\* The decomposition d of the request is one tuple per sector the request
\* touches, in ascending order.
OnePerTouchedSector(d) ==
    /\ Len(d) = Cardinality(TouchedSectors)
    /\ \A k \in 1..Len(d) : d[k].sector \in TouchedSectors
    /\ \A k \in 1..(Len(d) - 1) :
        /\ d[k].sector < d[k + 1].sector
        /\ d[k].address < d[k + 1].address

\* The slices of d are consecutive pieces of the request's bytes and
\* together they are the request's bytes.
SlicesMakeTheInput(d) ==
    /\ d # <<>> => /\ d[1].address = req.address
                   /\ d[Len(d)].address + Len(d[Len(d)].block) = req.address + ReqLen
    /\ \A k \in 1..(Len(d) - 1) :
        d[k + 1].address = d[k].address + Len(d[k].block)
    /\ \A k \in 1..Len(d) :
        /\ d[k].block # <<>>
        /\ d[k].address >= req.address
        /\ d[k].address + Len(d[k].block) <= req.address + ReqLen
        /\ \A j \in 1..Len(d[k].block) :
            d[k].block[j] = req.bytes[d[k].address - req.address + j]

\* Each slice of d lies inside its sector.
SlicesInsideSectors(d) ==
    \A k \in 1..Len(d) :
        /\ d[k].address >= SectorStart(SectorAt(d[k].sector))
        /\ d[k].address + Len(d[k].block) <= SectorEnd(SectorAt(d[k].sector))

\* C31: the decomposition write's loop starts from has exactly one tuple per
\* sector holding a byte of the write, in ascending address order; the
\* slices are consecutive pieces whose concatenation is the input, each
\* sub_address is the address of its slice's first byte and each slice lies
\* inside its sector.
C31_OverlapsDecomposition ==
    [][(WriteCall /\ pc' = "write")
         => /\ ReqLen > 0
            /\ OnePerTouchedSector(todo')
            /\ SlicesMakeTheInput(todo')
            /\ SlicesInsideSectors(todo')]_vars

\* The same for the writes that lie inside the writable area.
OverlapsDecompositionInsideWritable ==
    [][(WriteCall /\ pc' = "write" /\ InsideWritable)
         => /\ OnePerTouchedSector(todo')
            /\ SlicesMakeTheInput(todo')
            /\ SlicesInsideSectors(todo')]_vars

(***************************************************************************)
(* What the erase-or-program decision depends on (WriteSpec)               *)
(***************************************************************************)
\* The addresses the tuple t of the decomposition writes: its window.
InWindow(t, a) == a >= t.address /\ a < t.address + Len(t.block)

\* The storage f with every byte of t's sector outside t's window set to v.
OutsideWindowSet(f, t, v) ==
    [a \in MappedAddresses |->
        IF SectorContains(SectorAt(t.sector), a) /\ ~InWindow(t, a) THEN v ELSE f[a]]

\* What write's loop decides for the tuple at the head of todo when the
\* storage is f.
DecisionOn(f) ==
    LET t      == Head(todo)
        s      == SectorAt(t.sector)
        rd     == Read([Machine EXCEPT !.flash = f], SectorStart(s), SectorEnd(s), s.size)
        offset == SaturatingSub(t.address, SectorStart(s))
    IN  IF rd.tag # "Ok" THEN "fail"
        ELSE IF FitsInPlace(t.block, rd.data, offset, s.size) THEN "program"
        ELSE "erase"

\* Values the bytes outside the window are set to in the other run.
OtherFill == {0, 15, 255}

\* C32: whether a turn of write's loop erases the sector or programs the
\* block in place is decided by the block and the sector's bytes in the
\* block's window alone: the turn erases exactly when the same turn would
\* erase on a storage that differs in the sector's bytes outside the window.
C32_DecisionDependsOnWindow ==
    [][WriteSector
         => \A v \in OtherFill :
              /\ (Len(erases') > Len(erases))
                    <=> DecisionOn(OutsideWindowSet(flash, Head(todo), v)) = "erase"
              /\ (\E i \in 1..Len(trace') : i > Len(trace) /\ trace'[i].ev = "word")
                    <=> DecisionOn(OutsideWindowSet(flash, Head(todo), v)) = "program"]_vars

\* A sector was erased for a block that covers part of it, while bytes of
\* the sector outside the block's window were programmed.
C32_Witness ==
    /\ pc = "rewrite"
    /\ todo # <<>>
    /\ Len(Head(todo).block) < SectorAt(Head(todo).sector).size
    /\ \E a \in MappedAddresses :
        /\ SectorContains(SectorAt(Head(todo).sector), a)
        /\ ~InWindow(Head(todo), a)
        /\ pre[a] # ERASED

(***************************************************************************)
(* Ranges inside the writable area (WriteSpec)                             *)
(***************************************************************************)
\* C33: a range [a, b) that is not empty and lies between writable_start
\* and writable_end is writable, every sector of its span being Main, also
\* when it ends on a sector boundary or at writable_end; a read or an
\* aligned write of such a range is never answered MemoryNotReachable.
C33_InsideWritableIsWritable ==
    (pc = "idle" /\ op \in {"read", "write"} /\ ReqLen > 0 /\ InsideWritable
        /\ (op = "write" => req.address % 4 = 0))
        => /\ RangeIsWritable(RequestRange)
           /\ \A k \in 1..Len(RangeSpan(RequestRange)) :
                SectorAt(RangeSpan(RequestRange)[k]).block = "Main"
           /\ ret.tag # "MemoryNotReachable"

\* An aligned write that ends exactly at writable_end returned Ok.
C33_Witness ==
    /\ WriteReturned("Ok")
    /\ ReqLen > 0
    /\ req.address >= writable_start
    /\ req.address + ReqLen = writable_end

(***************************************************************************)
(* The mode bits of the control register (WriteSpec)                       *)
(***************************************************************************)
\* C34: the control register never has the program-enable bit PG and the
\* sector-erase bit SER set together: no sector erase starts with PG still
\* set and no word is programmed with SER still set.
C34_PgAndSerExclusive == ~(cr.pg /\ cr.ser)

(***************************************************************************)
(* write_from_blocks against one write of the same bytes (BlocksSpec)      *)
(***************************************************************************)
\* What the checks of write answer to one write of the whole request; a
\* write they accept goes through its sectors and returns Ok.
SingleWriteAccepts == ~IsMisaligned(req.address) /\ RangeIsWritable(RequestRange)

\* C35: for an aligned address and blocks whose range lies inside the
\* writable area, whether the total is a multiple of the transfer size or
\* not and also when the range ends at writable_end, write_from_blocks
\* returns Ok exactly when one write of the concatenated bytes would.
C35_BlocksOkAsSingleWrite ==
    (pc = "idle" /\ op = "write_from_blocks" /\ req.address % 4 = 0 /\ InsideWritable)
        => (ret.tag = "Ok" <=> SingleWriteAccepts)

\* The same for the ranges that end before writable_end.
BlocksOkAsSingleWriteBeforeEnd ==
    (pc = "idle" /\ op = "write_from_blocks" /\ req.address % 4 = 0 /\ InsideWritable
        /\ req.address + ReqLen < writable_end)
        => (ret.tag = "Ok" <=> SingleWriteAccepts)

(***************************************************************************)
(* The indices of UntilSequenceIterator (IteratorSpec)                     *)
(***************************************************************************)
\* C36: an UntilSequenceIterator keeps 0 <= head <= tail <= sequence.len(),
\* and next() never reads sequence[tail] with tail = sequence.len(): no
\* call of next() indexes the sequence out of bounds, whatever the inner
\* iterator still holds after a full match.
C36_IndicesInBounds ==
    it.state \in {"ready", "done", "panicked"}
        => /\ 0 <= it.head
           /\ it.head <= it.tail
           /\ it.tail <= Len(it.sequence)
           /\ it.state # "panicked"

(***************************************************************************)
(* Termination of write (WriteFairSpec)                                    *)
(***************************************************************************)
\* write alone: the driver takes its next step whenever it can, and the
\* hardware finishes every erase and every programming it started.
WriteOnlyNext ==
    \/ WriteCall
    \/ WriteSector
    \/ WriteRewrite
    \/ WriteSpins
    \/ HwDone

\* Aligned requests at both ends of the writable area, of every length.
TerminationRequests ==
    {r \in Requests :
        r.address \in {writable_start, writable_end - 12, writable_end - 4}}

WriteFairSpec ==
    /\ InitWith(TerminationRequests)
    /\ [][WriteOnlyNext]_vars
    /\ WF_vars(WriteSector)
    /\ WF_vars(WriteRewrite)
    /\ WF_vars(HwDone)

\* write has passed its checks and is in its loop over the sectors.
WriteInLoop ==
    op = "write" /\ pc \in {"write", "write_blocked", "rewrite", "rewrite_blocked"}

\* How many times the sector i was read by write's loop in the current call.
ReadCount(i) == Cardinality({n \in 1..Len(trace) : trace[n] = Event("read", i)})

\* C37: with the busy flag clearing a finite time after each erase or
\* programming that was started, a write that passed its checks ends every
\* wait, returns Ok after finitely many steps, and has then gone through
\* each sector it touches once.
C37_WriteTerminates ==
    /\ WriteInLoop ~> WriteReturned("Ok")
    /\ [](WriteReturned("Ok")
            => \A i \in SectorIndices :
                 ReadCount(i) = IF i \in TouchedSectors THEN 1 ELSE 0)

\* A write that erased and rewrote two sectors, waiting for the busy flag
\* after each erase, has returned Ok.
C37_Witness ==
    /\ WriteReturned("Ok")
    /\ Cardinality(TouchedSectors) >= 2
    /\ Len(erases) >= 2

(***************************************************************************)
(* The QuadSPI configuration and driver (QspiSpec)                         *)
(*                                                                         *)
(* The caller holds one configuration, turns it into a driver and makes    *)
(* indirect transfers with it; a builder that fails consumes the           *)
(* configuration.                                                          *)
(***************************************************************************)
Modes == {"Single", "Dual", "Quad"}

Rates == {"Single", "Double"}

\* Values of dummy_cycles the transfers are called with.
DummyCycles == {0, MAX_DUMMY_CYCLES, MAX_DUMMY_CYCLES + 1}

\* Lengths of the data of a transfer.
DataLengths == 0..2

QspiFrame ==
    UNCHANGED <<flash, cr, key, bsy, trace, erases, req, pc, op, ret, todo,
                sector_data, pre, it>>

Holds(state, config, driver, call, arg, res) ==
    qspi' = [state |-> state, config |-> config, driver |-> driver,
             call |-> call, arg |-> arg, res |-> res]

\* Config::<MODE>::default()
ConfigDefaultCall ==
    /\ qspi.state # "panicked"
    /\ \E mode \in Modes :
        Holds("config", <<ConfigDefault(mode)>>, <<>>, "default", 0, "Ok")
    /\ QspiFrame

\* config.single(), config.double() or config.quad()
ConfigModeCall ==
    /\ qspi.state = "config"
    /\ \E mode \in Modes :
        LET config == qspi.config[1]
            made   == IF mode = "Single" THEN ConfigSingle(config)
                      ELSE IF mode = "Dual" THEN ConfigDouble(config)
                      ELSE ConfigQuad(config)
        IN  Holds("config", <<made>>, <<>>, "mode", 0, "Ok")
    /\ QspiFrame

\* config.with_data_rate(data_rate)
WithDataRateCall ==
    /\ qspi.state = "config"
    /\ \E data_rate \in Rates :
        Holds("config", <<WithDataRate(qspi.config[1], data_rate)>>, <<>>,
              "with_data_rate", 0, "Ok")
    /\ QspiFrame

\* config.with_flash_mode(flash_mode)
WithFlashModeCall ==
    /\ qspi.state = "config"
    /\ \E flash_mode \in Rates :
        Holds("config", <<WithFlashMode(qspi.config[1], flash_mode)>>, <<>>,
              "with_flash_mode", 0, "Ok")
    /\ QspiFrame

\* config.with_flash_size(bits), for every u8
WithFlashSizeCall ==
    /\ qspi.state = "config"
    /\ \E bits \in Bytes :
        LET out == WithFlashSize(qspi.config[1], bits)
        IN  Holds(IF out.res = "Ok" THEN "config" ELSE "none", out.config, <<>>,
                  "with_flash_size", bits, out.res)
    /\ QspiFrame

\* QuadSpi::from_config(qspi, pins, config), which takes a Config<mode::Single>
FromConfigCall ==
    /\ qspi.state = "config"
    /\ qspi.config[1].mode = "Single"
    /\ LET out == FromConfig(qspi.config[1])
       IN  Holds(IF out.res = "Ok" THEN "driver" ELSE "none", <<>>, out.driver,
                 "from_config", 0, out.res)
    /\ QspiFrame

\* driver.write(instruction, address, data, dummy_cycles)
IndirectWriteCall ==
    /\ qspi.state = "driver"
    /\ \E instruction \in BOOLEAN, address \in BOOLEAN, data \in BOOLEAN,
          len \in DataLengths, dummy_cycles \in DummyCycles, busy \in BOOLEAN :
        LET out == Indirect(qspi.driver[1], 0, instruction, address, data, len,
                            dummy_cycles, busy)
        IN  Holds(IF out.res = "Panic" THEN "panicked" ELSE "driver", <<>>,
                  <<out.driver>>, "write", dummy_cycles, out.res)
    /\ QspiFrame

\* driver.read(instruction, address, data, dummy_cycles)
IndirectReadCall ==
    /\ qspi.state = "driver"
    /\ \E instruction \in BOOLEAN, address \in BOOLEAN,
          len \in DataLengths, dummy_cycles \in DummyCycles, busy \in BOOLEAN :
        LET out == Indirect(qspi.driver[1], 1, instruction, address, TRUE, len,
                            dummy_cycles, busy)
        IN  Holds(IF out.res = "Panic" THEN "panicked" ELSE "driver", <<>>,
                  <<out.driver>>, "read", dummy_cycles, out.res)
    /\ QspiFrame

QspiNext ==
    \/ ConfigDefaultCall
    \/ ConfigModeCall
    \/ WithDataRateCall
    \/ WithFlashModeCall
    \/ WithFlashSizeCall
    \/ FromConfigCall
    \/ IndirectWriteCall
    \/ IndirectReadCall

QspiSpec ==
    /\ InitWith({[address |-> writable_start, bytes |-> <<>>]})
    /\ [][QspiNext]_vars

\* C38: the flash_size_bits of every Config made with default and the
\* builders, and of every driver made from one, is 8, 16, 24 or 32;
\* with_flash_size answers InvalidFlashSize to any other value; and no
\* indirect write or read panics on the flash size.
C38_FlashSizeIsKnown ==
    /\ qspi.state = "config" => qspi.config[1].flash_size_bits \in {8, 16, 24, 32}
    /\ qspi.state = "driver" => qspi.driver[1].config.flash_size_bits \in {8, 16, 24, 32}
    /\ (qspi.call = "with_flash_size" /\ qspi.arg \notin {8, 16, 24, 32})
          => qspi.res = "InvalidFlashSize"
    /\ (qspi.call = "with_flash_size" /\ qspi.arg \in {8, 16, 24, 32})
          => qspi.res = "Ok" /\ qspi.config[1].flash_size_bits = qspi.arg
    /\ qspi.state # "panicked"
    /\ qspi.res # "Panic"

\* A driver made from a configuration whose size was set to 32 with
\* with_flash_size has made an indirect write.
C38_Witness ==
    /\ qspi.state = "driver"
    /\ qspi.call = "write"
    /\ qspi.res = "Ok"
    /\ qspi.driver[1].config.flash_size_bits = 32
    /\ qspi.driver[1].transfer.adsize = 3

=============================================================================
